---- MODULE Spec2Model ----
(***************************************************************************)
(* The ticket CRUD service of main.py: one "ticket" collection of a        *)
(* document store behind five HTTP routes.  The state is the collection,   *)
(* the store's id counter, the clock that utcnow() reads, and the last     *)
(* response sent.  Every route handler is one action.                      *)
(***************************************************************************)
EXTENDS Integers, Sequences, FiniteSets, TLC

\* ------------------------------------------------------------------ bounds

\* Number of tickets the store ever inserts.
MaxTickets == 2
\* Number of times utcnow() is read (requests that reach line 140).
MaxClock == 1
\* Length of a well-formed id string (24 hex digits in bson, scaled down).
OidLen == 2

\* ------------------------------------------------------------ value domains

Fields == {"title", "description", "status", "priority", "assignee"}

\* Python's None.  A value distinct from every text of the model.
Null == "None"

\* Text values a caller sends.
Text == {"", "a"}

\* Value of status when a creation payload leaves it out.
DefaultStatus == "open"

Values == Text \cup {Null}

\* The payload with no field set.
EmptyFn == [k \in {} |-> Null]

\* The payload that sets field f to v, and the one that sets f to v and g to w.
One(f, v) == [k \in {f} |-> v]
Two(f, v, g, w) == [k \in {f, g} |-> IF k = f THEN v ELSE w]

\* Request bodies sent to PATCH/PUT.
UpdatePayloads ==
    {EmptyFn, One("status", "a"), One("status", ""), One("title", Null),
     Two("status", "a", "priority", "a"), Two("description", "a", "assignee", Null)}

\* Request bodies sent to POST: two the schema rejects, two it accepts.
CreatePayloads ==
    {EmptyFn, One("title", Null), One("title", "a"), Two("title", "", "priority", "a")}

\* Values of a query parameter: Null when the caller leaves it out.
QueryValues == Text \cup {Null}

\* ------------------------------------------------------------- identifiers

\* Hex digits, by value (two of the sixteen), and a character that is none.
HexDigits == <<"a", "b">>
Base == Len(HexDigits)
HexSet == {HexDigits[i] : i \in 1..Base}
Chars == HexSet \cup {"z"}

DigitVal(c) == CHOOSE i \in 0..(Base - 1) : HexDigits[i + 1] = c

\* str(oid): the id as OidLen hex digits.
RECURSIVE HexStr(_, _)
HexStr(n, len) ==
    IF len = 0 THEN <<>>
    ELSE Append(HexStr(n \div Base, len - 1), HexDigits[(n % Base) + 1])

str(oid) == HexStr(oid, OidLen)

\* bson's check of an id string: the right length, hex digits only.
is_valid(s) == Len(s) = OidLen /\ \A i \in 1..Len(s) : s[i] \in HexSet

RECURSIVE HexVal(_)
HexVal(s) ==
    IF Len(s) = 0 THEN 0
    ELSE Base * HexVal(SubSeq(s, 1, Len(s) - 1)) + DigitVal(s[Len(s)])

\* ObjectId(ticket_id) raises InvalidId exactly when the string is malformed ...
ObjectIdRaises(s) == ~is_valid(s)
\* ... and is the parsed identifier otherwise.
ObjectId(s) == HexVal(s)

\* Id strings a caller sends: the ids the store can hand out and one more, a
\* string too short, one too long, and one of the right length that is not hex.
TicketIds ==
    {str(oid) : oid \in 0..MaxTickets}
        \cup {HexStr(0, OidLen - 1), HexStr(0, OidLen + 1), [i \in 1..OidLen |-> "z"]}

\* ------------------------------------------------------------------- state

VARIABLES
    db,         \* "None" or "Database": the module-level store handle
    tickets,    \* db["ticket"]: the set of stored documents
    nextOid,    \* the store's id counter
    now,        \* the clock utcnow() reads
    pending,    \* update requests between their update_one and their find_one
    resp        \* the last response sent

vars == <<db, tickets, nextOid, now, pending, resp>>

\* A stored document: its _id, its text fields, and updated_at (a set holding
\* the timestamp, empty while the field is absent).
Doc(oid, fields, updated_at) ==
    [_id |-> oid, fields |-> fields, updated_at |-> updated_at]

\* db["ticket"].find_one({"_id": oid}): the set holding the document, {} for None.
find_one(coll, oid) == {d \in coll : d._id = oid}

\* set_fields as a replacement of the document: the fields the body left out
\* are dropped.
set_fields_replace(d, updates, stamp) == Doc(d._id, updates, {stamp})

\* $set of update_one: the given fields and updated_at overwrite, the rest stays.
set_fields(d, updates, stamp) ==
    Doc(d._id,
        [k \in DOMAIN d.fields \cup DOMAIN updates |->
            IF k \in DOMAIN updates THEN updates[k] ELSE d.fields[k]],
        {stamp})

\* update_one with upsert=True: a document is inserted when none matches.
update_one_upsert(coll, oid, updates, stamp) ==
    IF \E d \in coll : d._id = oid
    THEN {IF d._id = oid THEN set_fields(d, updates, stamp) ELSE d : d \in coll}
    ELSE coll \cup {Doc(oid, updates, {stamp})}

\* db["ticket"].update_one({"_id": oid}, {"$set": ...}): no upsert.
update_one(coll, oid, updates, stamp) ==
    {IF d._id = oid THEN set_fields(d, updates, stamp) ELSE d : d \in coll}

matched_count(coll, oid) == Cardinality(find_one(coll, oid))

\* db["ticket"].delete_one({"_id": oid}).
delete_one(coll, oid) == {d \in coll : d._id # oid}

deleted_count(coll, oid) == Cardinality(find_one(coll, oid))

\* datetime.isoformat().
isoformat(t) == [iso |-> t]

\* serialize_doc: None stays None; _id becomes the string id, a datetime its
\* ISO string, every other field passes through.
serialize_doc(doc) ==
    {[id |-> str(d._id), fields |-> d.fields,
      updated_at |-> {isoformat(t) : t \in d.updated_at}] : d \in doc}

\* ------------------------------------------------------------- responses

\* A response: the route that sent it, the status code, the detail of an error
\* (or the status of a deletion), the id a deletion echoes, and the tickets of
\* the body: a set, empty for a null body.
Response(route, code, detail, id, body) ==
    [route |-> route, code |-> code, detail |-> detail, id |-> id, body |-> body]

\* raise HTTPException(status_code=code, detail=detail)
HTTPException(route, code, detail) == Response(route, code, detail, <<>>, {})

\* An exception no handler catches: the framework answers a bare 500.
Uncaught(route) == Response(route, 500, "Internal Server Error", <<>>, {})

Init ==
    /\ db \in {"None", "Database"}
    /\ tickets = {}
    /\ nextOid = 0
    /\ now = 0
    /\ pending = {}
    /\ resp = Response("none", 0, "", <<>>, {})


\* ------------------------------------------------------------- exceptions

Exc(kind, code, detail) == [kind |-> kind, code |-> code, detail |-> detail]

\* bson.errors.InvalidId, raised by ObjectId(ticket_id).
InvalidId == Exc("InvalidId", 0, "")
\* Any exception a store call raises.
StoreError == Exc("StoreError", 0, "")
\* raise HTTPException(status_code=404, detail="Ticket not found")
NotFound == Exc("HTTPException", 404, "Ticket not found")
\* raise HTTPException(status_code=400, detail="Invalid ticket id")
BadId == Exc("HTTPException", 400, "Invalid ticket id")

\* get_ticket has the one clause "except Exception": it catches HTTPException
\* too, so whatever the try block raises leaves as the 400.
get_ticket_except(e) == BadId

\* update_ticket without its "except Exception" clause: any other exception
\* leaves as the framework's 500.
update_ticket_except_missing(e) ==
    IF e.kind = "HTTPException" THEN e
    ELSE Exc("HTTPException", 500, "Internal Server Error")

\* update_ticket and delete_ticket re-raise an HTTPException and turn every
\* other exception into the 400.
update_ticket_except(e) == IF e.kind = "HTTPException" THEN e ELSE BadId

delete_ticket_except(e) == IF e.kind = "HTTPException" THEN e ELSE BadId

\* ---------------------------------------------------------------- schemas

\* Ticket (schemas.py): title is required and is text; the other fields are
\* optional.
TicketValid(payload) ==
    /\ "title" \in DOMAIN payload
    /\ payload["title"] \in Text

\* The document create_document stores: the payload's fields, status by default.
created_fields(payload) ==
    [k \in DOMAIN payload \cup {"status"} |->
        IF k \in DOMAIN payload THEN payload[k] ELSE DefaultStatus]

\* get_documents(name, filter): the documents that have every filtered field
\* with exactly the filtered value.
get_documents(coll, filter_q) ==
    {d \in coll : \A k \in DOMAIN filter_q :
        k \in DOMAIN d.fields /\ d.fields[k] = filter_q[k]}

\* model_dump() without exclude_unset: every field, None where the body set none.
model_dump_all(payload) ==
    [k \in Fields |-> IF k \in DOMAIN payload THEN payload[k] ELSE Null]

\* payload.model_dump(exclude_unset=True): the fields the body set, a null kept.
model_dump(payload) == payload

\* Python truth of an Optional[str]: None and "" are false.
truthy(v) == v # Null /\ v # ""

\* filter_q that leaves the priority parameter out.
filter_q_status_only(status, priority) ==
    [k \in {f \in {"status"} : truthy(status)} |-> status]

\* filter_q of list_tickets: a parameter enters the filter when it is truthy.
filter_q(status, priority) ==
    [k \in {f \in {"status", "priority"} :
                truthy(IF f = "status" THEN status ELSE priority)} |->
        IF k = "status" THEN status ELSE priority]

\* ----------------------------------------------------------------- routes
\* Each handler takes `raises`: 0 when every store call answers, n when the
\* handler's n-th store call raises.

create_ticket(payload, raises) ==
    LET r(code, detail) == HTTPException("create", code, detail)
        boom == Uncaught("create")
    IN
    /\ UNCHANGED <<db, now, pending>>
    /\ IF ~TicketValid(payload)
       THEN resp' = r(422, "validation error") /\ UNCHANGED <<tickets, nextOid>>
       ELSE IF db = "None"
       THEN resp' = r(500, "Database not configured") /\ UNCHANGED <<tickets, nextOid>>
       ELSE IF raises = 1
       THEN resp' = boom /\ UNCHANGED <<tickets, nextOid>>
       ELSE /\ nextOid < MaxTickets
            /\ LET ticket_id == str(nextOid)
                   coll == tickets \cup {Doc(nextOid, created_fields(payload), {})}
               IN /\ tickets' = coll
                  /\ nextOid' = nextOid + 1
                  /\ IF raises = 2 \/ ObjectIdRaises(ticket_id)
                     THEN resp' = boom
                     ELSE resp' = Response("create", 200, "", <<>>,
                                     serialize_doc(find_one(coll, ObjectId(ticket_id))))

list_tickets(status, priority, raises) ==
    /\ UNCHANGED <<db, tickets, nextOid, now, pending>>
    /\ IF db = "None"
       THEN resp' = HTTPException("list", 500, "Database not configured")
       ELSE IF raises = 1
       THEN resp' = Uncaught("list")
       ELSE resp' = Response("list", 200, "", <<>>,
                        UNION {serialize_doc({d}) :
                                 d \in get_documents(tickets, filter_q(status, priority))})

get_ticket(ticket_id, raises) ==
    LET r(e) == HTTPException("get", get_ticket_except(e).code, get_ticket_except(e).detail) IN
    /\ UNCHANGED <<db, tickets, nextOid, now, pending>>
    /\ IF db = "None" THEN resp' = HTTPException("get", 500, "Database not configured")
       ELSE IF ObjectIdRaises(ticket_id) THEN resp' = r(InvalidId)
       ELSE IF raises = 1 THEN resp' = r(StoreError)
       ELSE IF find_one(tickets, ObjectId(ticket_id)) = {} THEN resp' = r(NotFound)
       ELSE resp' = Response("get", 200, "", <<>>,
                        serialize_doc(find_one(tickets, ObjectId(ticket_id))))

\* The branch of update_ticket for a body that sets no field (lines 135-139).
update_ticket_read(ticket_id, raises) ==
    LET r(e) == HTTPException("update", update_ticket_except(e).code,
                              update_ticket_except(e).detail)
    IN
    /\ UNCHANGED <<tickets, now>>
    /\ IF ObjectIdRaises(ticket_id) THEN resp' = r(InvalidId)
       ELSE IF raises = 1 THEN resp' = r(StoreError)
       ELSE IF find_one(tickets, ObjectId(ticket_id)) = {} THEN resp' = r(NotFound)
       ELSE resp' = Response("update", 200, "", <<>>,
                        serialize_doc(find_one(tickets, ObjectId(ticket_id))))

\* The response of lines 144-145, from the collection as it is at the re-fetch.
\* When find_one finds nothing serialize_doc hands None on and the handler
\* returns it: the body holds no ticket.
update_ticket_refetch(coll, ticket_id, raises) ==
    IF raises = 2
    THEN HTTPException("update", update_ticket_except(StoreError).code,
                       update_ticket_except(StoreError).detail)
    ELSE Response("update", 200, "", <<>>,
                  serialize_doc(find_one(coll, ObjectId(ticket_id))))

\* The branch of update_ticket for a body that sets a field (lines 140-145),
\* with nothing between its update_one and its find_one.
update_ticket_merge(ticket_id, updates, raises) ==
    LET r(e) == HTTPException("update", update_ticket_except(e).code,
                              update_ticket_except(e).detail)
    IN
    /\ now < MaxClock
    /\ now' = now + 1
    /\ IF ObjectIdRaises(ticket_id)
       THEN resp' = r(InvalidId) /\ UNCHANGED tickets
       ELSE IF raises = 1
       THEN resp' = r(StoreError) /\ UNCHANGED tickets
       ELSE LET coll == update_one(tickets, ObjectId(ticket_id), updates, now) IN
            /\ tickets' = coll
            /\ IF matched_count(tickets, ObjectId(ticket_id)) = 0
               THEN resp' = r(NotFound)
               ELSE resp' = update_ticket_refetch(coll, ticket_id, raises)

update_ticket(ticket_id, payload, raises) ==
    LET updates == model_dump(payload) IN
    /\ UNCHANGED <<db, nextOid, pending>>
    /\ IF db = "None"
       THEN /\ resp' = HTTPException("update", 500, "Database not configured")
            /\ UNCHANGED <<tickets, now>>
       ELSE IF updates = EmptyFn
       THEN update_ticket_read(ticket_id, raises)
       ELSE update_ticket_merge(ticket_id, updates, raises)

\* The success body is {"status": "deleted", "id": ticket_id}.
delete_ticket(ticket_id, raises) ==
    LET r(e) == HTTPException("delete", delete_ticket_except(e).code,
                              delete_ticket_except(e).detail)
    IN
    /\ UNCHANGED <<db, nextOid, now, pending>>
    /\ IF db = "None"
       THEN resp' = HTTPException("delete", 500, "Database not configured")
            /\ UNCHANGED tickets
       ELSE IF ObjectIdRaises(ticket_id)
       THEN resp' = r(InvalidId) /\ UNCHANGED tickets
       ELSE IF raises = 1
       THEN resp' = r(StoreError) /\ UNCHANGED tickets
       ELSE /\ tickets' = delete_one(tickets, ObjectId(ticket_id))
            /\ IF deleted_count(tickets, ObjectId(ticket_id)) = 0
               THEN resp' = r(NotFound)
               ELSE resp' = Response("delete", 200, "deleted", ticket_id, {})

\* ------------------------------------------------ requests, one at a time

CreateTicket == \E payload \in CreatePayloads : create_ticket(payload, 0)

ListTickets == \E status \in QueryValues, priority \in QueryValues :
                  list_tickets(status, priority, 0)

GetTicket == \E ticket_id \in TicketIds : get_ticket(ticket_id, 0)

UpdateTicket == \E ticket_id \in TicketIds, payload \in UpdatePayloads :
                   update_ticket(ticket_id, payload, 0)

DeleteTicket == \E ticket_id \in TicketIds : delete_ticket(ticket_id, 0)

Next == CreateTicket \/ ListTickets \/ GetTicket \/ UpdateTicket \/ DeleteTicket

Spec == Init /\ [][Next]_vars

\* ------------------------------------------------- store calls that raise

CreateTicketFault ==
    \E payload \in CreatePayloads, raises \in 1..2 :
        /\ TicketValid(payload)
        /\ db = "Database"
        /\ create_ticket(payload, raises)

ListTicketsFault ==
    \E status \in QueryValues, priority \in QueryValues :
        /\ db = "Database"
        /\ list_tickets(status, priority, 1)

GetTicketFault ==
    \E ticket_id \in TicketIds :
        /\ db = "Database"
        /\ ~ObjectIdRaises(ticket_id)
        /\ get_ticket(ticket_id, 1)

\* The second store call of update_ticket, the re-fetch, is reached when the
\* body sets a field and update_one matched.
UpdateTicketFault ==
    \E ticket_id \in TicketIds, payload \in UpdatePayloads, raises \in 1..2 :
        /\ db = "Database"
        /\ ~ObjectIdRaises(ticket_id)
        /\ raises = 2 =>
              /\ model_dump(payload) # EmptyFn
              /\ matched_count(tickets, ObjectId(ticket_id)) > 0
        /\ update_ticket(ticket_id, payload, raises)

DeleteTicketFault ==
    \E ticket_id \in TicketIds :
        /\ db = "Database"
        /\ ~ObjectIdRaises(ticket_id)
        /\ delete_ticket(ticket_id, 1)

StoreFault ==
    \/ CreateTicketFault
    \/ ListTicketsFault
    \/ GetTicketFault
    \/ UpdateTicketFault
    \/ DeleteTicketFault

NextFault == Next \/ StoreFault

SpecFault == Init /\ [][NextFault]_vars

\* ------------------------------------------------------ concurrent requests
\* update_ticket makes two store calls when the body sets a field.  Another
\* request can run between them: the update is then two steps, the write that
\* matched and the re-fetch that answers, with one such update in flight.

UpdateWrite ==
    \E ticket_id \in TicketIds, payload \in UpdatePayloads :
        LET updates == model_dump(payload) IN
        /\ db = "Database"
        /\ pending = {}
        /\ updates # EmptyFn
        /\ now < MaxClock
        /\ ~ObjectIdRaises(ticket_id)
        /\ matched_count(tickets, ObjectId(ticket_id)) > 0
        /\ tickets' = update_one(tickets, ObjectId(ticket_id), updates, now)
        /\ now' = now + 1
        /\ pending' = {[ticket_id |-> ticket_id, updates |-> updates]}
        /\ UNCHANGED <<db, nextOid, resp>>

UpdateRefetchOf(p) ==
    /\ resp' = update_ticket_refetch(tickets, p.ticket_id, 0)
    /\ pending' = pending \ {p}
    /\ UNCHANGED <<db, tickets, nextOid, now>>

UpdateRefetch == \E p \in pending : UpdateRefetchOf(p)

NextConc == Next \/ UpdateWrite \/ UpdateRefetch

SpecConc == Init /\ [][NextConc]_vars

\* ------------------------------------------------------------- properties

Configured == db = "Database"

\* The id string is well-formed and names a stored ticket.
Exists(ticket_id) ==
    is_valid(ticket_id) /\ \E d \in tickets : d._id = ObjectId(ticket_id)

\* The id string is well-formed and names no stored ticket.
Absent(ticket_id) ==
    is_valid(ticket_id) /\ \A d \in tickets : d._id # ObjectId(ticket_id)

\* C1: with the store configured, GET /api/tickets/{id} answers 404 when the id
\* is well-formed and no ticket has it, and answers 400 only when the id is
\* malformed.
C1_GetAbsentIs404 ==
    [][\A ticket_id \in TicketIds :
          (Configured /\ get_ticket(ticket_id, 0)) =>
              /\ Absent(ticket_id) => resp'.code = 404
              /\ resp'.code = 400 => ~is_valid(ticket_id)]_vars

\* C2: a successful DELETE /api/tickets/{id} followed by GET /api/tickets/{id}
\* on the same id answers 404.
C2_DeleteThenGetIs404 ==
    [][\A ticket_id \in TicketIds :
          (/\ resp.route = "delete"
           /\ resp.code = 200
           /\ resp.id = ticket_id
           /\ get_ticket(ticket_id, 0)) => resp'.code = 404]_vars

\* C3: a PATCH or PUT on an existing ticket with a body that sets at least one
\* field gives exactly the fields of the body the values of the body and stamps
\* updated_at; the ticket's other fields, its id and every other ticket stay.
C3_UpdateChangesExactlySupplied ==
    [][resp'.route = "update" =>
       (\A ticket_id \in TicketIds, payload \in UpdatePayloads :
              (/\ Configured
               /\ payload # EmptyFn
               /\ Exists(ticket_id)
               /\ update_ticket(ticket_id, payload, 0)) =>
                  /\ Cardinality(tickets') = Cardinality(tickets)
                  /\ \A d \in tickets : d._id # ObjectId(ticket_id) => d \in tickets'
                  /\ \A d \in tickets : d._id = ObjectId(ticket_id) =>
                        \E e \in tickets' :
                           /\ e._id = d._id
                           /\ DOMAIN e.fields = DOMAIN d.fields \cup DOMAIN payload
                           /\ \A k \in DOMAIN payload : e.fields[k] = payload[k]
                           /\ \A k \in DOMAIN d.fields \ DOMAIN payload :
                                 e.fields[k] = d.fields[k]
                           /\ e.updated_at = {now})]_vars

\* C3 happens: an update answered 200 with the ticket it stamped and whose
\* status it set, beside a second ticket that has no updated_at.
C3_Witness ==
    /\ resp.route = "update"
    /\ resp.code = 200
    /\ Cardinality(tickets) = 2
    /\ \E d \in tickets :
          /\ d.updated_at # {}
          /\ d.fields["status"] = "a"
          /\ \E t \in resp.body : t.id = str(d._id) /\ t.updated_at # {}
          /\ \E e \in tickets : e._id # d._id /\ e.updated_at = {}

\* C4: a PATCH or PUT on an existing ticket with a body that sets no field
\* leaves the whole collection as it is, updated_at included, and answers 200
\* with that ticket.
C4_EmptyUpdateIsNoOp ==
    [][resp'.route = "update" =>
       (\A ticket_id \in TicketIds :
              (/\ Configured
               /\ Exists(ticket_id)
               /\ update_ticket(ticket_id, EmptyFn, 0)) =>
                  /\ tickets' = tickets
                  /\ resp'.code = 200
                  /\ Cardinality(resp'.body) = 1
                  /\ \A t \in resp'.body : \E d \in tickets :
                        /\ d._id = ObjectId(ticket_id)
                        /\ t.id = ticket_id
                        /\ t.fields = d.fields
                        /\ (t.updated_at = {}) = (d.updated_at = {}))]_vars

\* C4 happens: an update answered 200 with a ticket that has no updated_at,
\* and the stored ticket has none either.
C4_Witness ==
    /\ resp.route = "update"
    /\ resp.code = 200
    /\ \E t \in resp.body :
          /\ t.updated_at = {}
          /\ \E d \in tickets : str(d._id) = t.id /\ d.updated_at = {}

\* C5: every stored ticket has a title, and the title is a text (never null,
\* never absent).
C5_TitleIsText ==
    \A d \in tickets : "title" \in DOMAIN d.fields /\ d.fields["title"] \in Text

\* C6: with the store configured, a malformed id gets 400 from GET, from
\* PATCH/PUT with any body and from DELETE, and the collection stays as it is.
C6_MalformedIdIs400 ==
    [][resp'.route \in {"get", "update", "delete"} =>
       (\A ticket_id \in TicketIds :
              (Configured /\ ~is_valid(ticket_id)) =>
                  /\ get_ticket(ticket_id, 0) => resp'.code = 400 /\ tickets' = tickets
                  /\ \A payload \in UpdatePayloads :
                        update_ticket(ticket_id, payload, 0) =>
                            resp'.code = 400 /\ tickets' = tickets
                  /\ delete_ticket(ticket_id, 0) =>
                        resp'.code = 400 /\ tickets' = tickets)]_vars

\* C6 happens: an update of a non-empty collection was answered 400 after the
\* clock was read, which only a malformed id with a body that sets a field does.
C6_Witness ==
    /\ resp.route = "update"
    /\ resp.code = 400
    /\ tickets # {}
    /\ now > 0
    /\ \A d \in tickets : d.updated_at = {}

\* The tickets that have field k with exactly the value v.
Having(k, v) == {d \in tickets : k \in DOMAIN d.fields /\ d.fields[k] = v}

\* C7 as claimed: GET /api/tickets answers exactly the tickets whose status
\* equals the status parameter and whose priority equals the priority parameter,
\* for every value supplied, the empty string included; all tickets when no
\* parameter is supplied; the collection stays as it is.
C7_ListFiltersEveryValue ==
    [][resp'.route = "list" =>
       (\A status \in QueryValues, priority \in QueryValues :
              (Configured /\ list_tickets(status, priority, 0)) =>
                  /\ tickets' = tickets
                  /\ resp'.code = 200
                  /\ resp'.body = serialize_doc(
                        (IF status # Null THEN Having("status", status) ELSE tickets)
                        \cap (IF priority # Null THEN Having("priority", priority) ELSE tickets)))]_vars

\* C7 as amended: the same for every non-empty value supplied; a parameter
\* supplied as the empty string filters nothing, like one left out.
C7_ListFiltersNonEmptyValue ==
    [][resp'.route = "list" =>
       (\A status \in QueryValues, priority \in QueryValues :
              (Configured /\ list_tickets(status, priority, 0)) =>
                  /\ tickets' = tickets
                  /\ resp'.code = 200
                  /\ resp'.body = serialize_doc(
                        (IF status \notin {Null, ""} THEN Having("status", status) ELSE tickets)
                        \cap (IF priority \notin {Null, ""} THEN Having("priority", priority)
                              ELSE tickets)))]_vars

\* C7 happens: a list answered some of the stored tickets and not all of them.
C7_Witness ==
    /\ resp.route = "list"
    /\ resp.code = 200
    /\ resp.body # {}
    /\ Cardinality(resp.body) < Cardinality(tickets)

\* C8: with the store configured, PATCH/PUT and DELETE on a well-formed id that
\* no ticket has answer 404 and leave the collection as it is.
C8_AbsentIdIs404 ==
    [][resp'.route \in {"update", "delete"} =>
       (\A ticket_id \in TicketIds :
              (Configured /\ Absent(ticket_id)) =>
                  /\ \A payload \in UpdatePayloads :
                        update_ticket(ticket_id, payload, 0) =>
                            resp'.code = 404 /\ tickets' = tickets
                  /\ delete_ticket(ticket_id, 0) =>
                        resp'.code = 404 /\ tickets' = tickets)]_vars

\* C8 happens: a delete of a non-empty collection was answered 404.
C8_Witness ==
    /\ resp.route = "delete"
    /\ resp.code = 404
    /\ tickets # {}

\* C9: when the store is configured and a store call raises, the request ends
\* in 400, 404 or a validation error, never in an uncaught exception.
C9_StoreErrorsAreNormalized ==
    [][StoreFault =>
          /\ resp'.code \in {400, 404, 422}
          /\ resp'.detail # "Internal Server Error"]_vars

\* C10: an update whose update_one matched answers a ticket, never a null
\* body, and in it every field of the body has the value of the body, whatever
\* requests run between its write and its re-fetch.
C10_UpdateAnswersItsOwnWrite ==
    [][\A p \in pending :
          UpdateRefetchOf(p) =>
              /\ resp'.body # {}
              /\ \A t \in resp'.body : \A k \in DOMAIN p.updates :
                    k \in DOMAIN t.fields /\ t.fields[k] = p.updates[k]]_vars

====
